---- MODULE Spec2Model ----
(***************************************************************************)
(* A model of open-coroutine-core's event loop: the process-wide fd        *)
(* registries, the per-loop `waiting` gate around selector.select, the     *)
(* round-robin pool dispatcher and the join handle.                        *)
(*                                                                         *)
(* Every thread runs one public operation at a time.  pc[t] is the place   *)
(* of thread t inside the operation, op[t] the operation's arguments and   *)
(* ret[t] what the last operation returned.  The Selector, the Scheduler   *)
(* and the timer are not part of the sources at hand; they are modelled    *)
(* from their required contracts.                                          *)
(***************************************************************************)
EXTENDS Integers, Sequences, FiniteSets, TLC

\* ------------------------------------------------------------- bounds
NumThreads == 2
NumLoops == 2
MaxFd == 1
MaxCo == 2
MaxTime == 1
UsizeBits == 3
MaxNext == 3

Threads == 1..NumThreads
\* The worker threads start() spawns: (1..EVENT_LOOPS.len()), one per element.
Workers == (NumThreads + 1)..(NumThreads + NumLoops - 1)
AllThreads == Threads \cup Workers
Loops == 0..(NumLoops - 1)
FDs == 1..MaxFd
Names == 1..MaxCo

\* ------------------------------------------------------------- values
NoCo == 0
NoToken == -1
NoName == 0
NullLoop == -1
NoFd == 0
NoResult == -1
READABLE == "READABLE"
WRITABLE == "WRITABLE"

\* The address of the leaked copy of a coroutine's name: never 0.
AddrOf(co) == 16 * co

\* What the closure of the k-th submitted coroutine returns: val(3), val(4), ...
PayloadOf(k) == k + 2

VARIABLES
    INDEX,
    READABLE_RECORDS, READABLE_TOKEN_RECORDS,
    WRITABLE_RECORDS, WRITABLE_TOKEN_RECORDS,
    waiting, selector, ready,
    results, home, body,
    now,
    pc, op, ret, events, seqlog, delivered,
    EVENT_LOOP_STARTED, EVENT_LOOP_WORKERS

lifeVars == <<EVENT_LOOP_STARTED, EVENT_LOOP_WORKERS>>
poolVars == <<INDEX, seqlog>>
regVars == <<READABLE_RECORDS, READABLE_TOKEN_RECORDS,
             WRITABLE_RECORDS, WRITABLE_TOKEN_RECORDS>>
schedVars == <<ready, results, home, body>>
threadVars == <<pc, op, ret, events>>
vars == <<poolVars, regVars, waiting, selector, schedVars, now, threadVars,
          delivered, lifeVars>>

\* ------------------------------------------------------------- threads
NoOp == [kind |-> "none", loop |-> NullLoop, fd |-> NoFd, cur |-> NoCo,
         name |-> NoName, dur |-> 0, deadline |-> 0, index |-> 0,
         left |-> 0, visited |-> {}]
NoRet == [status |-> "None", val |-> NoResult]
Ok(v) == [status |-> "Ok", val |-> v]
Err == [status |-> "Err", val |-> NoResult]
TimedOut == [status |-> "TimedOut", val |-> NoResult]
Panic == [status |-> "Panic", val |-> NoResult]

\* Thread t enters the public operation o.
Call(t, o) ==
    /\ pc[t] = "idle"
    /\ pc' = [pc EXCEPT ![t] = o.kind]
    /\ op' = [op EXCEPT ![t] = o]
    /\ ret' = [ret EXCEPT ![t] = NoRet]

\* Thread t moves on to place p of its operation.
Goto(t, p) ==
    /\ pc' = [pc EXCEPT ![t] = p]
    /\ UNCHANGED <<op, ret>>

\* Thread t leaves its operation with result r; its arguments are dropped.
Return(t, r) ==
    /\ pc' = [pc EXCEPT ![t] = "idle"]
    /\ op' = [op EXCEPT ![t] = NoOp]
    /\ ret' = [ret EXCEPT ![t] = r]

Quiescent == \A t \in Threads : pc[t] = "idle"

\* ------------------------------------------------------------- selector
\* One selector per loop: for every fd the token registered for each interest.
NoReg == [r |-> NoToken, w |-> NoToken]
Registered(l, fd) == selector[l][fd] # NoReg

\* register on an fd the selector already holds: EEXIST where the OS keeps one
\* registration per fd, an added filter where it keeps one per (fd, interest).
RegisterOutcomes(l, fd) == IF Registered(l, fd) THEN {TRUE, FALSE} ELSE {TRUE}

SelRegister(l, fd, token, interest) ==
    [selector EXCEPT ![l][fd] =
        IF interest = READABLE THEN [@ EXCEPT !.r = token]
                               ELSE [@ EXCEPT !.w = token]]

SelReregister(l, fd, token, interest) ==
    [selector EXCEPT ![l][fd] =
        IF interest = READABLE THEN [r |-> token, w |-> NoToken]
                               ELSE [r |-> NoToken, w |-> token]]

SelDeregister(l, fd) == [selector EXCEPT ![l][fd] = NoReg]

\* ------------------------------------------------------------- EventLoop
\* EventLoop::token: 0 outside a coroutine, else the address of its name.
Token(cur) == IF cur = NoCo THEN 0 ELSE AddrOf(cur)

\* A registration that never finds the fd already recorded.
ContainsKeyNever(records, fd) == FALSE

\* The early return of add_read_event / add_write_event:
\* ..._TOKEN_RECORDS.contains_key(&fd)
ContainsKey(records, fd) == records[fd] # NoToken

\* A narrowing that passes the thread-level token instead of the stored one.
UnwrapOrAlways0(tok) == 0

\* HashMap::remove(&fd).unwrap_or(0)
UnwrapOr0(tok) == IF tok = NoToken THEN 0 ELSE tok

\* What wait_read_event / wait_write_event do with the result r of the add.
AddReturns(t, r) ==
    IF op[t].kind \in {"wait_read_event", "wait_write_event"} /\ r.status = "Ok"
    THEN Goto(t, "wait")
    ELSE Return(t, r)

add_read_event(t) ==
    LET l == op[t].loop
        fd == op[t].fd
        token == Token(op[t].cur)
    IN  /\ pc[t] \in {"add_read_event", "wait_read_event"}
        /\ IF ContainsKey(READABLE_TOKEN_RECORDS, fd)
           THEN /\ UNCHANGED <<selector, regVars>>
                /\ AddReturns(t, Ok(NoResult))
           ELSE \E ok \in RegisterOutcomes(l, fd) :
                  IF ~ok
                  THEN /\ UNCHANGED <<selector, regVars>>
                       /\ AddReturns(t, Err)
                  ELSE /\ selector' = SelRegister(l, fd, token, READABLE)
                       /\ IF fd \in READABLE_RECORDS
                          THEN \* assert!(READABLE_RECORDS.insert(fd)) fails
                               /\ UNCHANGED regVars
                               /\ AddReturns(t, Panic)
                          ELSE /\ READABLE_RECORDS' = READABLE_RECORDS \cup {fd}
                               /\ READABLE_TOKEN_RECORDS' =
                                    [READABLE_TOKEN_RECORDS EXCEPT ![fd] = token]
                               /\ UNCHANGED <<WRITABLE_RECORDS, WRITABLE_TOKEN_RECORDS>>
                               /\ AddReturns(t, Ok(NoResult))
        /\ UNCHANGED <<lifeVars, delivered, poolVars, waiting, schedVars, now, events>>
add_write_event(t) ==
    LET l == op[t].loop
        fd == op[t].fd
        token == Token(op[t].cur)
    IN  /\ pc[t] \in {"add_write_event", "wait_write_event"}
        /\ IF ContainsKey(WRITABLE_TOKEN_RECORDS, fd)
           THEN /\ UNCHANGED <<selector, regVars>>
                /\ AddReturns(t, Ok(NoResult))
           ELSE \E ok \in RegisterOutcomes(l, fd) :
                  IF ~ok
                  THEN /\ UNCHANGED <<selector, regVars>>
                       /\ AddReturns(t, Err)
                  ELSE /\ selector' = SelRegister(l, fd, token, WRITABLE)
                       /\ IF fd \in WRITABLE_RECORDS
                          THEN \* assert!(WRITABLE_RECORDS.insert(fd)) fails
                               /\ UNCHANGED regVars
                               /\ AddReturns(t, Panic)
                          ELSE /\ WRITABLE_RECORDS' = WRITABLE_RECORDS \cup {fd}
                               /\ WRITABLE_TOKEN_RECORDS' =
                                    [WRITABLE_TOKEN_RECORDS EXCEPT ![fd] = token]
                               /\ UNCHANGED <<READABLE_RECORDS, READABLE_TOKEN_RECORDS>>
                               /\ AddReturns(t, Ok(NoResult))
        /\ UNCHANGED <<lifeVars, delivered, poolVars, waiting, schedVars, now, events>>
\* The pool-level operations EventLoops::del_event / del_read_event /
\* del_write_event, each of which calls the loop-level one N times.
PoolDelKinds == {"pool_del_event", "pool_del_read_event", "pool_del_write_event"}

\* What the caller of a loop-level del_* does with its result r: the pool
\* drops it (`_ =`) and goes on with the next turn of for_each.
DelReturns(t, r) ==
    IF op[t].kind \in PoolDelKinds
    THEN IF op[t].left > 1
         THEN /\ op' = [op EXCEPT ![t].left = @ - 1]
              /\ pc' = [pc EXCEPT ![t] = "next"]
              /\ UNCHANGED ret
         ELSE Return(t, Ok(NoResult))
    ELSE Return(t, r)

\* The body of EventLoop::del_event on loop l, leaving result r.
DelEventBody(l, fd, r) ==
    IF ~Registered(l, fd)
    THEN \* selector.deregister(fd)? fails
         /\ UNCHANGED <<selector, regVars>>
         /\ r = Err
    ELSE /\ selector' = SelDeregister(l, fd)
         /\ READABLE_RECORDS' = READABLE_RECORDS \ {fd}
         /\ READABLE_TOKEN_RECORDS' = [READABLE_TOKEN_RECORDS EXCEPT ![fd] = NoToken]
         /\ WRITABLE_RECORDS' = WRITABLE_RECORDS \ {fd}
         /\ WRITABLE_TOKEN_RECORDS' = [WRITABLE_TOKEN_RECORDS EXCEPT ![fd] = NoToken]
         /\ r = Ok(NoResult)

del_event(t) ==
    /\ pc[t] = "del_event"
    /\ \E r \in {Err, Ok(NoResult)} :
         /\ DelEventBody(op[t].loop, op[t].fd, r)
         /\ DelReturns(t, r)
    /\ UNCHANGED <<lifeVars, delivered, poolVars, waiting, schedVars, now, events>>

\* The body of EventLoop::del_read_event on loop l, leaving result r.
DelReadEventBody(l, fd, r) ==
    IF fd \in READABLE_RECORDS
    THEN IF fd \in WRITABLE_RECORDS
         THEN \* the argument WRITABLE_TOKEN_RECORDS.remove(&fd) is evaluated first
              /\ WRITABLE_TOKEN_RECORDS' = [WRITABLE_TOKEN_RECORDS EXCEPT ![fd] = NoToken]
              /\ UNCHANGED <<READABLE_TOKEN_RECORDS, WRITABLE_RECORDS>>
              /\ IF ~Registered(l, fd)
                 THEN /\ UNCHANGED <<selector, READABLE_RECORDS>>
                      /\ r = Err
                 ELSE /\ selector' = SelReregister(l, fd,
                                        UnwrapOr0(WRITABLE_TOKEN_RECORDS[fd]), WRITABLE)
                      /\ READABLE_RECORDS' = READABLE_RECORDS \ {fd}
                      /\ r = Ok(NoResult)
         ELSE DelEventBody(l, fd, r)
    ELSE /\ UNCHANGED <<selector, regVars>>
         /\ r = Ok(NoResult)

del_read_event(t) ==
    /\ pc[t] = "del_read_event"
    /\ \E r \in {Err, Ok(NoResult)} :
         /\ DelReadEventBody(op[t].loop, op[t].fd, r)
         /\ DelReturns(t, r)
    /\ UNCHANGED <<lifeVars, delivered, poolVars, waiting, schedVars, now, events>>

\* The body of EventLoop::del_write_event on loop l, leaving result r.
DelWriteEventBody(l, fd, r) ==
    IF fd \in WRITABLE_RECORDS
    THEN IF fd \in READABLE_RECORDS
         THEN \* the argument READABLE_TOKEN_RECORDS.remove(&fd) is evaluated first
              /\ READABLE_TOKEN_RECORDS' = [READABLE_TOKEN_RECORDS EXCEPT ![fd] = NoToken]
              /\ UNCHANGED <<WRITABLE_TOKEN_RECORDS, READABLE_RECORDS>>
              /\ IF ~Registered(l, fd)
                 THEN /\ UNCHANGED <<selector, WRITABLE_RECORDS>>
                      /\ r = Err
                 ELSE /\ selector' = SelReregister(l, fd,
                                        UnwrapOr0(READABLE_TOKEN_RECORDS[fd]), READABLE)
                      /\ WRITABLE_RECORDS' = WRITABLE_RECORDS \ {fd}
                      /\ r = Ok(NoResult)
         ELSE DelEventBody(l, fd, r)
    ELSE /\ UNCHANGED <<selector, regVars>>
         /\ r = Ok(NoResult)

del_write_event(t) ==
    /\ pc[t] = "del_write_event"
    /\ \E r \in {Err, Ok(NoResult)} :
         /\ DelWriteEventBody(op[t].loop, op[t].fd, r)
         /\ DelReturns(t, r)
    /\ UNCHANGED <<lifeVars, delivered, poolVars, waiting, schedVars, now, events>>

\* ------------------------------------------------------------- timer
\* One tick of the clock is 10 ms, the cap of one wait of a join.
WaitCap == 1
SatSub(a, b) == IF a > b THEN a - b ELSE 0
Min(a, b) == IF a < b THEN a ELSE b
\* open_coroutine_timer::get_timeout_time
GetTimeoutTime(dur) == now + dur

Tick ==
    /\ now < MaxTime
    /\ now' = now + 1
    /\ UNCHANGED <<lifeVars, delivered, poolVars, regVars, waiting, selector, schedVars, threadVars>>

\* ------------------------------------------------------------- scheduler
\* Scheduler::get_result(name): a lookup that leaves the result in place.
GetResult(name) == results[name]

\* The scheduler resumes the coroutine at the head of the ready queue of the
\* thread's loop; the coroutine runs to completion and its result is stored
\* under its name.
RunCo(t) ==
    LET l == op[t].loop
        co == Head(ready[l])
    IN  /\ pc[t] \in {"try_timed_schedule", "try_timeout_schedule"}
        /\ ready[l] # <<>>
        /\ pc[t] = "try_timeout_schedule" => now < op[t].deadline
        /\ ready' = [ready EXCEPT ![l] = Tail(@)]
        /\ results' = [results EXCEPT ![co] = body[co]]
        /\ UNCHANGED <<lifeVars, delivered, poolVars, regVars, waiting, selector, home, body, now,
                       threadVars>>

\* ------------------------------------------------------------- EventLoop::wait
\* A wait that never schedules before it selects.
ScheduleNever(o) == FALSE

\* schedule_before_wait: false for wait_just (and try_timeout_schedule, which
\* calls it), true for wait_event and all that call it.
ScheduleBeforeWait(o) == o.kind \notin {"wait_just", "try_timeout_schedule"}

\* What the caller of wait does with wait's result r.
WaitReturns(t, r) ==
    IF op[t].kind = "worker"
    THEN \* _ = event_loop.wait_event(..): the worker tests the flag again
         Goto(t, "worker_load")
    ELSE IF r.status = "Ok" /\ op[t].kind = "join"
    THEN Goto(t, "join_poll")
    ELSE IF r.status = "Ok" /\ op[t].kind \in {"timeout_join", "timeout_at_join"}
    THEN Goto(t, "timeout_at_join_poll")
    ELSE IF r.status = "Ok" /\ op[t].kind = "try_timeout_schedule"
    THEN Return(t, Ok(SatSub(op[t].deadline, now)))
    ELSE Return(t, r)

\* A gate whose compare-and-swap never loses.
CasNeverFails(l) == FALSE

\* waiting.compare_exchange(false, true, ..).is_err()
CasFails(l) == waiting[l]

\* The compare-and-swap of `waiting`: the loser returns Ok at once.
wait(t) ==
    LET l == op[t].loop
    IN  /\ pc[t] \in {"wait", "wait_just", "wait_event"}
        /\ IF CasFails(l)
           THEN /\ WaitReturns(t, Ok(NoResult))
                /\ UNCHANGED waiting
           ELSE /\ waiting' = [waiting EXCEPT ![l] = TRUE]
                /\ Goto(t, IF ScheduleBeforeWait(op[t]) THEN "try_timed_schedule"
                                                        ELSE "select")
        /\ UNCHANGED <<lifeVars, delivered, poolVars, regVars, selector, schedVars, now, events>>

\* scheduler.try_timed_schedule(time) returns: the ready queue is drained.
try_timed_schedule(t) ==
    /\ pc[t] = "try_timed_schedule"
    /\ ready[op[t].loop] = <<>>
    /\ Goto(t, "select")
    /\ UNCHANGED <<lifeVars, delivered, poolVars, regVars, waiting, selector, schedVars, now, events>>

\* The events selector l can report: one per interest registered with it.
Event(fd, token, interest) ==
    [fd |-> fd, token |-> token, readable |-> interest = READABLE,
     writable |-> interest = WRITABLE]
ReadyEvents(l) ==
    {Event(fd, selector[l][fd].r, READABLE) : fd \in {f \in FDs : selector[l][f].r # NoToken}}
    \cup
    {Event(fd, selector[l][fd].w, WRITABLE) : fd \in {f \in FDs : selector[l][f].w # NoToken}}

\* selector.select returns Ok with some events.
select_ok(t) ==
    /\ pc[t] = "select"
    /\ \E evs \in SUBSET ReadyEvents(op[t].loop) :
         events' = [events EXCEPT ![t] = evs]
    /\ Goto(t, "waiting_store")
    /\ UNCHANGED <<lifeVars, delivered, poolVars, regVars, waiting, selector, schedVars, now>>

\* A wait that leaves the gate as it is.
StoreNothing(l) == waiting

\* self.waiting.store(false, Ordering::Relaxed)
StoreFalse(l) == [waiting EXCEPT ![l] = FALSE]

\* selector.select fails: map_err resets `waiting`, `?` returns the error.
select_err(t) ==
    /\ pc[t] = "select"
    /\ waiting' = StoreFalse(op[t].loop)
    /\ WaitReturns(t, Err)
    /\ UNCHANGED <<lifeVars, delivered, poolVars, regVars, selector, schedVars, now, events>>

\* self.waiting.store(false) after a successful select.
waiting_store(t) ==
    /\ pc[t] = "waiting_store"
    /\ waiting' = StoreFalse(op[t].loop)
    /\ Goto(t, "events")
    /\ UNCHANGED <<lifeVars, delivered, poolVars, regVars, selector, schedVars, now, events>>

\* One turn of `for event in events.iter()`.  scheduler.resume_syscall(token)
\* finds no coroutine suspended in a system call and changes nothing.
process_event(t) ==
    /\ pc[t] = "events"
    /\ \E e \in events[t] :
         LET rmiss == e.readable /\ READABLE_TOKEN_RECORDS[e.fd] = NoToken
             wmiss == e.writable /\ WRITABLE_TOKEN_RECORDS[e.fd] = NoToken
         IN  /\ READABLE_TOKEN_RECORDS' =
                  IF e.readable THEN [READABLE_TOKEN_RECORDS EXCEPT ![e.fd] = NoToken]
                                ELSE READABLE_TOKEN_RECORDS
             /\ WRITABLE_TOKEN_RECORDS' =
                  IF e.writable /\ ~rmiss
                  THEN [WRITABLE_TOKEN_RECORDS EXCEPT ![e.fd] = NoToken]
                  ELSE WRITABLE_TOKEN_RECORDS
             /\ IF rmiss \/ wmiss
                THEN \* assert!(..._TOKEN_RECORDS.remove(&fd).is_some()) fails
                     /\ events' = [events EXCEPT ![t] = {}]
                     /\ Return(t, Panic)
                ELSE /\ events' = [events EXCEPT ![t] = @ \ {e}]
                     /\ UNCHANGED <<pc, op, ret>>
    /\ UNCHANGED <<lifeVars, delivered, poolVars, READABLE_RECORDS, WRITABLE_RECORDS, waiting, selector,
                   schedVars, now>>

\* The loop over the events is over: wait returns Ok(()).
wait_done(t) ==
    /\ pc[t] = "events"
    /\ events[t] = {}
    /\ WaitReturns(t, Ok(NoResult))
    /\ UNCHANGED <<lifeVars, delivered, poolVars, regVars, waiting, selector, schedVars, now, events>>

\* EventLoop::try_timeout_schedule: scheduler.try_timeout_schedule(timeout_time)
\* returns (queue drained or deadline reached), then wait_just(ZERO).
try_timeout_schedule(t) ==
    /\ pc[t] = "try_timeout_schedule"
    /\ ready[op[t].loop] = <<>> \/ now >= op[t].deadline
    /\ Goto(t, "wait")
    /\ UNCHANGED <<lifeVars, delivered, poolVars, regVars, waiting, selector, schedVars, now, events>>

\* ------------------------------------------------------------- submit
\* EventLoop::submit: the scheduler allocates a fresh name and queues the
\* coroutine; nothing is scheduled.  The handle is (loop, name).
FreshName == Cardinality({n \in Names : home[n] # NullLoop}) + 1

submit(t) ==
    LET l == op[t].loop
        name == FreshName
    IN  /\ pc[t] = "submit"
        /\ name \in Names
        /\ ready' = [ready EXCEPT ![l] = Append(@, name)]
        /\ home' = [home EXCEPT ![name] = l]
        /\ body' = [body EXCEPT ![name] = PayloadOf(name)]
        /\ Return(t, Ok(name))
        /\ UNCHANGED <<lifeVars, delivered, poolVars, regVars, waiting, selector, results, now, events>>

\* ------------------------------------------------------------- JoinHandle
\* delivered is the history of the names whose payload a join has returned.

\* A join that takes whatever result the loop of its handle has produced.
JoinResultOfLoop(t) ==
    LET done == {n \in Names : home[n] = op[t].loop /\ results[n] # NoResult}
    IN  IF done = {} THEN NoResult ELSE results[CHOOSE n \in done : TRUE]

\* Scheduler::get_result(co_name) as the join of thread t calls it.
JoinResult(t) == GetResult(op[t].name)

\* `while result.is_none()` is left: Ok(result.unwrap().get_result()).
\* Otherwise the loop body goes on at place p.
PollResult(t, p) ==
    IF JoinResult(t) # NoResult
    THEN /\ Return(t, Ok(JoinResult(t)))
         /\ delivered' = delivered \cup {op[t].name}
    ELSE /\ Goto(t, p)
         /\ UNCHANGED delivered

\* A handle with an empty name is JoinHandle::error(): Ok(None) at once.
JoinEntry(t, p) ==
    IF op[t].name = NoName
    THEN /\ Return(t, Ok(NoResult))
         /\ UNCHANGED delivered
    ELSE PollResult(t, p)

\* JoinHandle::join up to the first get_result.
join(t) ==
    /\ pc[t] = "join"
    /\ JoinEntry(t, "wait")
    /\ UNCHANGED <<lifeVars, poolVars, regVars, waiting, selector, schedVars, now, events>>

\* result = Scheduler::get_result(co_name) at the end of the loop body.
join_poll(t) ==
    /\ pc[t] = "join_poll"
    /\ PollResult(t, "wait")
    /\ UNCHANGED <<lifeVars, poolVars, regVars, waiting, selector, schedVars, now, events>>

\* JoinHandle::timeout_join: the deadline is computed, then timeout_at_join.
timeout_join(t) ==
    /\ pc[t] = "timeout_join"
    /\ op' = [op EXCEPT ![t].deadline = GetTimeoutTime(op[t].dur)]
    /\ pc' = [pc EXCEPT ![t] = "timeout_at_join"]
    /\ UNCHANGED <<lifeVars, delivered, poolVars, regVars, waiting, selector, schedVars, now,
                   ret, events>>

\* JoinHandle::timeout_at_join up to the first get_result.
timeout_at_join(t) ==
    /\ pc[t] = "timeout_at_join"
    /\ JoinEntry(t, "timeout_at_join_left")
    /\ UNCHANGED <<lifeVars, poolVars, regVars, waiting, selector, schedVars, now, events>>

\* A remaining time that forgets the deadline.
LeftTimeCapOnly(timeout_time) == WaitCap

\* left_time = timeout_time.saturating_sub(now()).min(10_000_000)
LeftTime(timeout_time) == Min(SatSub(timeout_time, now), WaitCap)

timeout_at_join_left(t) ==
    /\ pc[t] = "timeout_at_join_left"
    /\ IF LeftTime(op[t].deadline) = 0
       THEN Return(t, TimedOut)
       ELSE Goto(t, "wait")
    /\ UNCHANGED <<lifeVars, delivered, poolVars, regVars, waiting, selector, schedVars, now,
                   events>>

timeout_at_join_poll(t) ==
    /\ pc[t] = "timeout_at_join_poll"
    /\ PollResult(t, "timeout_at_join_left")
    /\ UNCHANGED <<lifeVars, poolVars, regVars, waiting, selector, schedVars, now, events>>

\* ------------------------------------------------------------- EventLoops
UsizeMax == 2 ^ UsizeBits - 1

\* INDEX.fetch_add(1, SeqCst): one atomic step, wrapping at usize::MAX.
FetchAdd(i) == (i + 1) % (UsizeMax + 1)

\* A dispatcher that hands out loop 0 whatever the index, as monitor does.
NextLoopZero(index) == 0

\* The loop EventLoops::next hands to the caller that fetched `index`.
NextLoop(index) == index % NumLoops

\* seqlog is the history of the values fetch_add handed out before the first
\* wrap-around of INDEX.
Wrapped == seqlog # <<>> /\ seqlog[Len(seqlog)] = UsizeMax
Log(index) == IF Wrapped THEN seqlog ELSE Append(seqlog, index)

next_fetch_add(t) ==
    /\ pc[t] \in {"next", "monitor"}
    /\ op' = [op EXCEPT ![t].index = INDEX]
    /\ INDEX' = FetchAdd(INDEX)
    /\ seqlog' = Log(INDEX)
    /\ pc' = [pc EXCEPT ![t] = "next_index"]
    /\ UNCHANGED <<lifeVars, delivered, regVars, waiting, selector, schedVars, now, ret, events>>

\* What the caller of next() does with the loop it is handed: a worker binds
\* it, the pool-level operations call the loop-level operation on it.
NextReturns(t, l) ==
    IF op[t].kind = "worker"
    THEN /\ op' = [op EXCEPT ![t].loop = l]
         /\ pc' = [pc EXCEPT ![t] = "worker_load"]
         /\ UNCHANGED ret
    ELSE IF op[t].kind = "pool_submit"
    THEN /\ op' = [op EXCEPT ![t].loop = l]
         /\ pc' = [pc EXCEPT ![t] = "submit"]
         /\ UNCHANGED ret
    ELSE IF op[t].kind \in PoolDelKinds
    THEN /\ op' = [op EXCEPT ![t].loop = l, ![t].visited = @ \cup {l}]
         /\ pc' = [pc EXCEPT ![t] =
                     CASE op[t].kind = "pool_del_event" -> "del_event"
                       [] op[t].kind = "pool_del_read_event" -> "del_read_event"
                       [] OTHER -> "del_write_event"]
         /\ UNCHANGED ret
    ELSE Return(t, Ok(l))

\* if index == usize::MAX { INDEX.store(1) }, then the loop is returned.
next_index(t) ==
    /\ pc[t] = "next_index"
    /\ INDEX' = IF op[t].index = UsizeMax THEN 1 ELSE INDEX
    /\ NextReturns(t, IF op[t].kind = "monitor" THEN 0 ELSE NextLoop(op[t].index))
    /\ UNCHANGED <<lifeVars, delivered, seqlog, regVars, waiting, selector, schedVars, now,
                   events>>

\* ------------------------------------------------------------- start / stop
\* A worker that never sees the flag cleared.
StartedLoadStale == TRUE

\* EVENT_LOOP_STARTED.load(Ordering::Acquire) in the worker's while.
StartedLoad == EVENT_LOOP_STARTED

\* What the caller of start() does next: pool-level submit goes on to next().
StartReturns(t) ==
    IF op[t].kind = "pool_submit"
    THEN Goto(t, "next")
    ELSE Return(t, Ok(NoResult))

\* EventLoops::start: compare_exchange(false, true); the block that spawns
\* the workers is entered when the exchange .is_err(), that is when the flag
\* was already set.
start(t) ==
    /\ pc[t] = "start"
    /\ IF EVENT_LOOP_STARTED
       THEN /\ Goto(t, "get_or_init")
            /\ UNCHANGED EVENT_LOOP_STARTED
       ELSE /\ EVENT_LOOP_STARTED' = TRUE
            /\ StartReturns(t)
    /\ UNCHANGED <<EVENT_LOOP_WORKERS, delivered, poolVars, regVars, waiting, selector,
                   schedVars, now, events>>

\* EVENT_LOOP_WORKERS.get_or_init: the first caller spawns the N - 1 workers,
\* every later caller finds the cell filled.
get_or_init(t) ==
    /\ pc[t] = "get_or_init"
    /\ IF EVENT_LOOP_WORKERS
       THEN /\ StartReturns(t)
            /\ UNCHANGED EVENT_LOOP_WORKERS
       ELSE /\ EVENT_LOOP_WORKERS' = TRUE
            /\ pc' = [u \in AllThreads |->
                        IF u \in Workers THEN "next"
                        ELSE IF u # t THEN pc[u]
                        ELSE IF op[t].kind = "pool_submit" THEN "next" ELSE "idle"]
            /\ op' = [u \in AllThreads |->
                        IF u \in Workers THEN [NoOp EXCEPT !.kind = "worker"]
                        ELSE IF u # t THEN op[u]
                        ELSE IF op[t].kind = "pool_submit" THEN op[t] ELSE NoOp]
            /\ ret' = [ret EXCEPT ![t] =
                        IF op[t].kind = "pool_submit" THEN @ ELSE Ok(NoResult)]
    /\ UNCHANGED <<EVENT_LOOP_STARTED, delivered, poolVars, regVars, waiting, selector,
                   schedVars, now, events>>

\* EventLoops::stop: EVENT_LOOP_STARTED.store(false, Ordering::Release).
stop(t) ==
    /\ pc[t] = "stop"
    /\ EVENT_LOOP_STARTED' = FALSE
    /\ Return(t, Ok(NoResult))
    /\ UNCHANGED <<EVENT_LOOP_WORKERS, delivered, poolVars, regVars, waiting, selector,
                   schedVars, now, events>>

\* The worker's `while EVENT_LOOP_STARTED.load(..)`: another wait_event on
\* its loop, or the end of the thread.
worker_load(t) ==
    /\ pc[t] = "worker_load"
    /\ Goto(t, IF StartedLoad THEN "wait" ELSE "exited")
    /\ UNCHANGED <<lifeVars, delivered, poolVars, regVars, waiting, selector, schedVars,
                   now, events>>

\* ------------------------------------------------------------- callers
Contexts == {NoCo} \cup Names
Durations == {0, 1, MaxTime + 1}

CallAdd(t) ==
    /\ \E kind \in {"add_read_event", "add_write_event"}, l \in Loops, fd \in FDs,
          cur \in Contexts :
         Call(t, [NoOp EXCEPT !.kind = kind, !.loop = l, !.fd = fd, !.cur = cur])
    /\ UNCHANGED <<lifeVars, delivered, poolVars, regVars, waiting, selector, schedVars, now, events>>

CallDel(t) ==
    /\ \E kind \in {"del_event", "del_read_event", "del_write_event"}, l \in Loops,
          fd \in FDs :
         Call(t, [NoOp EXCEPT !.kind = kind, !.loop = l, !.fd = fd])
    /\ UNCHANGED <<lifeVars, delivered, poolVars, regVars, waiting, selector, schedVars, now, events>>

CallWait(t) ==
    /\ \E kind \in {"wait_just", "wait_event"}, l \in Loops :
         Call(t, [NoOp EXCEPT !.kind = kind, !.loop = l])
    /\ UNCHANGED <<lifeVars, delivered, poolVars, regVars, waiting, selector, schedVars, now, events>>

\* wait_read_event / wait_write_event called by a thread outside any coroutine.
CallWaitFd(t) ==
    /\ \E kind \in {"wait_read_event", "wait_write_event"}, l \in Loops, fd \in FDs :
         Call(t, [NoOp EXCEPT !.kind = kind, !.loop = l, !.fd = fd])
    /\ UNCHANGED <<lifeVars, delivered, poolVars, regVars, waiting, selector, schedVars, now, events>>

CallTrySchedule(t) ==
    /\ \E l \in Loops :
         Call(t, [NoOp EXCEPT !.kind = "try_timeout_schedule", !.loop = l,
                              !.deadline = GetTimeoutTime(WaitCap)])
    /\ UNCHANGED <<lifeVars, delivered, poolVars, regVars, waiting, selector, schedVars, now, events>>

CallSubmit(t) ==
    /\ FreshName \in Names
    /\ \E l \in Loops :
         Call(t, [NoOp EXCEPT !.kind = "submit", !.loop = l])
    /\ UNCHANGED <<lifeVars, delivered, poolVars, regVars, waiting, selector, schedVars, now, events>>

\* The handles there are: one per submitted name, and JoinHandle::error().
Handles == {<<home[n], n>> : n \in {m \in Names : home[m] # NullLoop}}
           \cup {<<NullLoop, NoName>>}

CallJoin(t) ==
    /\ \E h \in Handles :
         Call(t, [NoOp EXCEPT !.kind = "join", !.loop = h[1], !.name = h[2]])
    /\ UNCHANGED <<lifeVars, delivered, poolVars, regVars, waiting, selector, schedVars, now, events>>

CallTimeoutJoin(t) ==
    /\ \E h \in Handles, dur \in Durations :
         Call(t, [NoOp EXCEPT !.kind = "timeout_join", !.loop = h[1],
                              !.name = h[2], !.dur = dur])
    /\ UNCHANGED <<lifeVars, delivered, poolVars, regVars, waiting, selector, schedVars, now, events>>

CallNext(t) ==
    /\ \E kind \in {"next", "monitor"} : Call(t, [NoOp EXCEPT !.kind = kind])
    /\ UNCHANGED <<lifeVars, delivered, poolVars, regVars, waiting, selector, schedVars, now, events>>

CallStart(t) ==
    /\ Call(t, [NoOp EXCEPT !.kind = "start"])
    /\ UNCHANGED <<lifeVars, delivered, poolVars, regVars, waiting, selector, schedVars, now, events>>

CallStop(t) ==
    /\ Call(t, [NoOp EXCEPT !.kind = "stop"])
    /\ UNCHANGED <<lifeVars, delivered, poolVars, regVars, waiting, selector, schedVars, now, events>>

\* EventLoops::submit: EventLoops::start(), then next().submit(..).
CallPoolSubmit(t) ==
    /\ FreshName \in Names
    /\ pc[t] = "idle"
    /\ pc' = [pc EXCEPT ![t] = "start"]
    /\ op' = [op EXCEPT ![t] = [NoOp EXCEPT !.kind = "pool_submit"]]
    /\ ret' = [ret EXCEPT ![t] = NoRet]
    /\ UNCHANGED <<lifeVars, delivered, poolVars, regVars, waiting, selector, schedVars, now, events>>

\* add_read_event / add_write_event called by a thread outside any coroutine.
CallAddThread(t) ==
    /\ \E kind \in {"add_read_event", "add_write_event"}, l \in Loops, fd \in FDs :
         Call(t, [NoOp EXCEPT !.kind = kind, !.loop = l, !.fd = fd])
    /\ UNCHANGED <<lifeVars, delivered, poolVars, regVars, waiting, selector, schedVars, now, events>>

\* next() or monitor() called while INDEX is below MaxNext.
CallNextEarly(t) ==
    /\ INDEX < MaxNext
    /\ CallNext(t)

\* EventLoops::del_event / del_read_event / del_write_event: for_each over
\* (0..EVENT_LOOPS.len()), every turn starting with next().
CallPoolDel(t) ==
    /\ pc[t] = "idle"
    /\ INDEX < MaxNext
    /\ \E kind \in PoolDelKinds, fd \in FDs :
         /\ pc' = [pc EXCEPT ![t] = "next"]
         /\ op' = [op EXCEPT ![t] = [NoOp EXCEPT !.kind = kind, !.fd = fd,
                                                  !.left = NumLoops]]
         /\ ret' = [ret EXCEPT ![t] = NoRet]
    /\ UNCHANGED <<lifeVars, delivered, poolVars, regVars, waiting, selector, schedVars, now, events>>

\* ------------------------------------------------------------- specifications
Init ==
    /\ INDEX = 0
    /\ seqlog = <<>>
    /\ READABLE_RECORDS = {}
    /\ READABLE_TOKEN_RECORDS = [fd \in FDs |-> NoToken]
    /\ WRITABLE_RECORDS = {}
    /\ WRITABLE_TOKEN_RECORDS = [fd \in FDs |-> NoToken]
    /\ waiting = [l \in Loops |-> FALSE]
    /\ selector = [l \in Loops |-> [fd \in FDs |-> NoReg]]
    /\ ready = [l \in Loops |-> <<>>]
    /\ results = [n \in Names |-> NoResult]
    /\ home = [n \in Names |-> NullLoop]
    /\ body = [n \in Names |-> NoResult]
    /\ now = 0
    /\ pc = [t \in AllThreads |-> IF t \in Workers THEN "unspawned" ELSE "idle"]
    /\ op = [t \in AllThreads |-> NoOp]
    /\ ret = [t \in AllThreads |-> NoRet]
    /\ events = [t \in AllThreads |-> {}]
    /\ delivered = {}
    /\ EVENT_LOOP_STARTED = FALSE
    /\ EVENT_LOOP_WORKERS = FALSE

WaitSteps(t) ==
    \/ wait(t)
    \/ try_timed_schedule(t)
    \/ select_ok(t)
    \/ select_err(t)
    \/ waiting_store(t)
    \/ wait_done(t)

\* One thread applies a sequence of registry operations and waits to the
\* loops; no coroutine is submitted.
SeqThreads == {1}

RegNext ==
    \E t \in SeqThreads :
        \/ CallAdd(t)
        \/ CallDel(t)
        \/ CallWait(t)
        \/ add_read_event(t)
        \/ add_write_event(t)
        \/ del_event(t)
        \/ del_read_event(t)
        \/ del_write_event(t)
        \/ process_event(t)
        \/ WaitSteps(t)

RegSpec == Init /\ [][RegNext]_vars

\* Threads wait on the loops concurrently; no coroutine is submitted.
WaitNext ==
    \E t \in Threads :
        \/ CallWait(t)
        \/ CallWaitFd(t)
        \/ CallTrySchedule(t)
        \/ add_read_event(t)
        \/ add_write_event(t)
        \/ try_timeout_schedule(t)
        \/ process_event(t)
        \/ WaitSteps(t)

WaitSpec == Init /\ [][WaitNext]_vars

\* Submitting and joining, with no fd registered.
JoinNext ==
    \/ Tick
    \/ \E t \in Threads :
        \/ CallSubmit(t)
        \/ CallJoin(t)
        \/ CallTimeoutJoin(t)
        \/ submit(t)
        \/ join(t)
        \/ join_poll(t)
        \/ timeout_join(t)
        \/ timeout_at_join(t)
        \/ timeout_at_join_left(t)
        \/ timeout_at_join_poll(t)
        \/ RunCo(t)
        \/ WaitSteps(t)

JoinSpec == Init /\ [][JoinNext]_vars

\* Submitting and joining when the selector never fails and never reports an
\* event: every select returns empty once its timeout has run out.  A thread
\* inside an operation keeps running.
Running(t) ==
    \/ submit(t)
    \/ join(t)
    \/ join_poll(t)
    \/ timeout_join(t)
    \/ timeout_at_join(t)
    \/ timeout_at_join_left(t)
    \/ timeout_at_join_poll(t)
    \/ RunCo(t)
    \/ wait(t)
    \/ try_timed_schedule(t)
    \/ select_ok(t)
    \/ waiting_store(t)
    \/ wait_done(t)

FairJoinNext ==
    \/ Tick
    \/ \E t \in Threads :
        \/ CallSubmit(t)
        \/ CallJoin(t)
        \/ CallTimeoutJoin(t)
        \/ Running(t)

FairJoinSpec ==
    /\ Init
    /\ [][FairJoinNext]_vars
    /\ \A t \in Threads : WF_vars(Running(t))

\* The round-robin dispatcher of the pool.
PoolNext ==
    \E t \in Threads :
        \/ CallNext(t)
        \/ next_fetch_add(t)
        \/ next_index(t)

PoolSpec == Init /\ [][PoolNext]_vars

\* Registrations and waits of one thread with no deletion: an fd leaves the
\* token map only when wait consumes an event for it.
CycleNext ==
    \E t \in SeqThreads :
        \/ CallAdd(t)
        \/ CallWait(t)
        \/ add_read_event(t)
        \/ add_write_event(t)
        \/ process_event(t)
        \/ WaitSteps(t)

CycleSpec == Init /\ [][CycleNext]_vars

\* The life of the pool: start, stop and pool-level submit called by the
\* threads, and the workers start spawns.
WorkerRun(w) ==
    \/ next_fetch_add(w)
    \/ next_index(w)
    \/ worker_load(w)
    \/ RunCo(w)
    \/ WaitSteps(w)

LifeNext ==
    \/ \E t \in Threads :
        \/ CallStart(t)
        \/ CallStop(t)
        \/ CallPoolSubmit(t)
        \/ start(t)
        \/ get_or_init(t)
        \/ stop(t)
        \/ next_fetch_add(t)
        \/ next_index(t)
        \/ submit(t)
    \/ \E w \in Workers : WorkerRun(w)

LifeSpec == Init /\ [][LifeNext]_vars

\* A spawned worker keeps running.
FairLifeSpec ==
    /\ Init
    /\ [][LifeNext]_vars
    /\ \A w \in Workers : WF_vars(WorkerRun(w))

\* One thread registers fds and deletes them at pool level while the threads
\* call next().
PoolDelNext ==
    \/ \E t \in SeqThreads :
        \/ CallAddThread(t)
        \/ CallPoolDel(t)
        \/ add_read_event(t)
        \/ add_write_event(t)
        \/ del_event(t)
        \/ del_read_event(t)
        \/ del_write_event(t)
    \/ \E t \in Threads :
        \/ CallNextEarly(t)
        \/ next_fetch_add(t)
        \/ next_index(t)

PoolDelSpec == Init /\ [][PoolDelNext]_vars

Next == RegNext \/ WaitNext \/ JoinNext \/ PoolNext \/ CycleNext \/ LifeNext
        \/ PoolDelNext

Spec == Init /\ [][Next]_vars

\* ------------------------------------------------------------- properties
HasRead(fd) == fd \in READABLE_RECORDS
HasWrite(fd) == fd \in WRITABLE_RECORDS

\* Thread t takes the step that carries out the registry operation `kind`.
Performs(t, kind) == pc[t] = kind /\ pc'[t] = "idle"

\* fd is registered for both interests with loop l, as add_read_event(fd);
\* add_write_event(fd) on l leave it.
BothRegistered(l, fd) ==
    /\ HasRead(fd) /\ HasWrite(fd)
    /\ READABLE_TOKEN_RECORDS[fd] # NoToken
    /\ WRITABLE_TOKEN_RECORDS[fd] # NoToken
    /\ selector[l][fd] = [r |-> READABLE_TOKEN_RECORDS[fd],
                          w |-> WRITABLE_TOKEN_RECORDS[fd]]

\* C1: at every point where no operation is in progress, an fd is in
\* READABLE_RECORDS iff it is a key of READABLE_TOKEN_RECORDS, and in
\* WRITABLE_RECORDS iff it is a key of WRITABLE_TOKEN_RECORDS.
C1_RegistryConsistency ==
    Quiescent =>
        \A fd \in FDs :
            /\ HasRead(fd) <=> READABLE_TOKEN_RECORDS[fd] # NoToken
            /\ HasWrite(fd) <=> WRITABLE_TOKEN_RECORDS[fd] # NoToken

\* The threads inside the gate of loop l: between the compare-and-swap they
\* won and their store of false.
InGate(t, l) ==
    /\ op[t].loop = l
    /\ pc[t] \in {"try_timed_schedule", "select", "waiting_store"}
InSelect(t, l) == op[t].loop = l /\ pc[t] = "select"

\* C2: on every loop at most one thread is inside selector.select; `waiting`
\* is set exactly while the one thread that won the compare-and-swap has not
\* yet cleared it.
C2_SelectMutex ==
    \A l \in Loops :
        /\ Cardinality({t \in Threads : InSelect(t, l)}) <= 1
        /\ Cardinality({t \in Threads : InGate(t, l)}) <= 1
        /\ waiting[l] <=> \E t \in Threads : InGate(t, l)

\* C2 witness: one thread is inside select on a loop while another thread is
\* at the compare-and-swap of the same loop.
C2_Witness ==
    \E t1, t2 \in Threads, l \in Loops :
        /\ t1 # t2
        /\ InSelect(t1, l)
        /\ op[t2].loop = l
        /\ pc[t2] \in {"wait", "wait_just", "wait_event"}

\* C7: an add_read_event(fd) that finds no token recorded and returns Ok
\* registers fd once, with its own token, and records that token; an
\* add_read_event(fd) that follows it (the token still recorded) returns Ok
\* and leaves the selector and the recorded token alone.  Likewise for
\* add_write_event.
C7_AddStep(t, kind, records, interest) ==
    LET l == op[t].loop
        fd == op[t].fd
    IN  Performs(t, kind) =>
          IF records[fd] # NoToken
          THEN /\ ret'[t] = Ok(NoResult)
               /\ UNCHANGED <<selector, regVars>>
          ELSE ret'[t] = Ok(NoResult) =>
                 /\ records'[fd] = Token(op[t].cur)
                 /\ selector' = SelRegister(l, fd, Token(op[t].cur), interest)

C7_IdempotentAdd ==
    [][\A t \in Threads :
         /\ C7_AddStep(t, "add_read_event", READABLE_TOKEN_RECORDS, READABLE)
         /\ C7_AddStep(t, "add_write_event", WRITABLE_TOKEN_RECORDS, WRITABLE)]_vars

\* C7 witness: fd is registered for reads with coroutine 1's token and a
\* second add_read_event(fd), called from coroutine 2, is being carried out.
C7_Witness ==
    \E t \in Threads, fd \in FDs, l \in Loops :
        /\ pc[t] = "add_read_event" /\ op[t].fd = fd /\ op[t].cur = 2
        /\ HasRead(fd)
        /\ READABLE_TOKEN_RECORDS[fd] = AddrOf(1)
        /\ selector[l][fd].r = AddrOf(1)

\* C8: del_read_event(fd) on a loop that holds fd for both interests
\* re-registers fd with write-only interest and the token add_write_event
\* stored, takes fd out of READABLE_RECORDS, keeps it in WRITABLE_RECORDS and
\* returns Ok.  Likewise del_write_event narrows to read-only.
C8_Narrowing ==
    [][\A t \in Threads :
         LET l == op[t].loop
             fd == op[t].fd
         IN  /\ Performs(t, "del_read_event") /\ BothRegistered(l, fd) =>
                  /\ selector'[l][fd] = [r |-> NoToken, w |-> WRITABLE_TOKEN_RECORDS[fd]]
                  /\ fd \notin READABLE_RECORDS' /\ fd \in WRITABLE_RECORDS'
                  /\ ret'[t] = Ok(NoResult)
             /\ Performs(t, "del_write_event") /\ BothRegistered(l, fd) =>
                  /\ selector'[l][fd] = [r |-> READABLE_TOKEN_RECORDS[fd], w |-> NoToken]
                  /\ fd \notin WRITABLE_RECORDS' /\ fd \in READABLE_RECORDS'
                  /\ ret'[t] = Ok(NoResult)]_vars

\* C8 witness: the state a narrowing del_read_event leaves: the selector
\* holds fd for writes only, under a coroutine's token, fd is out of
\* READABLE_RECORDS and in WRITABLE_RECORDS.
C8_Witness ==
    \E t \in Threads, fd \in FDs, l \in Loops :
        /\ pc[t] = "idle" /\ ret[t] = Ok(NoResult)
        /\ selector[l][fd] = [r |-> NoToken, w |-> AddrOf(2)]
        /\ READABLE_TOKEN_RECORDS[fd] = AddrOf(1)
        /\ ~HasRead(fd) /\ HasWrite(fd)

\* C9: del_read_event(fd) on an fd registered for both interests takes fd
\* out of READABLE_RECORDS and READABLE_TOKEN_RECORDS and leaves
\* WRITABLE_RECORDS and WRITABLE_TOKEN_RECORDS as they were.  Likewise for
\* del_write_event.
C9_NarrowingFrame ==
    [][\A t \in Threads :
         LET l == op[t].loop
             fd == op[t].fd
         IN  /\ Performs(t, "del_read_event") /\ BothRegistered(l, fd) =>
                  /\ fd \notin READABLE_RECORDS' /\ READABLE_TOKEN_RECORDS'[fd] = NoToken
                  /\ UNCHANGED <<WRITABLE_RECORDS, WRITABLE_TOKEN_RECORDS>>
             /\ Performs(t, "del_write_event") /\ BothRegistered(l, fd) =>
                  /\ fd \notin WRITABLE_RECORDS' /\ WRITABLE_TOKEN_RECORDS'[fd] = NoToken
                  /\ UNCHANGED <<READABLE_RECORDS, READABLE_TOKEN_RECORDS>>]_vars

\* C10: before INDEX wraps, the k-th call that consumes INDEX obtains the
\* sequence number k - 1, so no two calls obtain the same one; and the call
\* of next() that obtained sequence number i returns loops[i mod N].
C10_RoundRobin ==
    /\ [](\A k \in 1..Len(seqlog) : seqlog[k] = k - 1)
    /\ [](\A t \in Threads :
            pc[t] = "next_index" /\ ~Wrapped =>
               \E k \in 1..Len(seqlog) : seqlog[k] = op[t].index)
    /\ [](\A t1, t2 \in Threads :
            t1 # t2 /\ pc[t1] = "next_index" /\ pc[t2] = "next_index" /\ ~Wrapped =>
               op[t1].index # op[t2].index)
    /\ [][\A t \in Threads :
            pc[t] = "next_index" /\ op[t].kind = "next" /\ pc'[t] = "idle" =>
               ret'[t] = Ok(op[t].index % NumLoops)]_vars

\* C10 witness: N + 1 calls have consumed INDEX and the last of them, which
\* obtained sequence number N, has returned loops[0].
C10_Witness ==
    /\ Quiescent
    /\ INDEX = NumLoops + 1
    /\ Len(seqlog) = NumLoops + 1
    /\ \E t \in Threads : ret[t] = Ok(0)

\* A join of kind `kind` on a real handle returns Ok in this step.
Delivers(t, kind) ==
    /\ op[t].kind = kind /\ op[t].name # NoName
    /\ pc[t] # "idle" /\ pc'[t] = "idle"
    /\ ret'[t].status = "Ok"

IsSubmitted(n) == home[n] # NullLoop
Queued(n) == IsSubmitted(n) /\ \E i \in 1..Len(ready[home[n]]) : ready[home[n]][i] = n

\* C3: join() on the handle of computation n returns a payload only once the
\* scheduler has recorded a result for n, and returns the payload recorded
\* for n: the value n's closure returns (3 for the first computation
\* submitted, 4 for the second).
C3_JoinCorrect ==
    [][\A t \in Threads :
         Delivers(t, "join") =>
            /\ results[op[t].name] # NoResult
            /\ ret'[t].val = results[op[t].name]
            /\ ret'[t].val = body[op[t].name]
            /\ ret'[t].val = PayloadOf(op[t].name)]_vars

\* C3 witness: two computations were submitted to one loop, the first has
\* been joined, and the join of the second has driven the loop and finds the
\* second's result recorded.
C3_Witness ==
    \E t \in Threads :
        /\ home[1] = home[2] /\ IsSubmitted(1)
        /\ 1 \in delivered
        /\ op[t].kind = "join" /\ op[t].name = 2 /\ pc[t] = "join_poll"
        /\ results[2] = 4

\* C4: a join on the handle of a submitted computation eventually returns
\* the payload, with no I/O event ever reported.
C4_JoinLive ==
    \A t \in Threads :
        (op[t].kind = "join" /\ op[t].name # NoName)
            ~> (pc[t] = "idle" /\ ret[t].status = "Ok")

\* C4 witness: a join has waited on the loop, no fd being registered
\* anywhere, and finds the result recorded.
C4_Witness ==
    \E t \in Threads :
        /\ op[t].kind = "join" /\ pc[t] = "join_poll"
        /\ results[op[t].name] # NoResult
        /\ \A l \in Loops, fd \in FDs : ~Registered(l, fd)

\* C5: submit schedules nothing; a timeout_join with a zero duration that
\* finds no result returns TimedOut without driving the loop and without
\* touching the scheduler, so the computation stays queued; a timeout_join
\* times out only once its deadline is reached, what it returns with Ok is
\* the payload of its computation, and no submitted computation is ever
\* lost: it is queued or its result is recorded.
C5_Step(t) ==
    /\ Performs(t, "submit") =>
          /\ results' = results
          /\ ready'[op[t].loop] = Append(ready[op[t].loop], ret'[t].val)
    /\ op[t].kind = "timeout_join" /\ op[t].dur = 0
         /\ pc[t] = "timeout_at_join_left" /\ pc'[t] # pc[t] =>
          /\ ret'[t] = TimedOut /\ pc'[t] = "idle"
          /\ UNCHANGED <<schedVars, waiting, selector>>
    /\ op[t].kind = "timeout_join" /\ pc[t] # "idle" /\ pc'[t] = "idle"
         /\ ret'[t].status = "TimedOut" => now >= op[t].deadline
    /\ Delivers(t, "timeout_join") => ret'[t].val = body[op[t].name]

C5_TimedOutJoinKeeps ==
    /\ [](\A n \in Names : IsSubmitted(n) => Queued(n) \/ results[n] = body[n])
    /\ [](\A t \in Threads :
            op[t].kind = "timeout_join" /\ op[t].dur = 0 =>
               pc[t] \in {"timeout_join", "timeout_at_join", "timeout_at_join_left"})
    /\ [][\A t \in Threads : C5_Step(t)]_vars
    /\ \A t \in Threads :
         (op[t].kind = "timeout_join" /\ op[t].name # NoName /\ op[t].dur > MaxTime)
            ~> (pc[t] = "idle" /\ ret[t].status = "Ok")

\* C5 witness: a zero-duration timeout_join has timed out, its computation
\* is still queued, and a timeout_join with a far deadline is under way on
\* the same handle.
C5_Witness ==
    \E t \in Threads, n \in Names :
        /\ pc[t] = "timeout_join" /\ op[t].name = n /\ op[t].dur > MaxTime
        /\ ret[t] = NoRet
        /\ Queued(n)
        /\ \E u \in Threads : u # t /\ pc[u] = "idle" /\ ret[u] = TimedOut

\* C6: once a join has returned the payload of computation n, no join
\* returns it again.
C6_SingleDelivery ==
    [][\A t \in Threads :
         Delivers(t, "join") \/ Delivers(t, "timeout_join") =>
            op[t].name \notin delivered]_vars

\* C11: the start() whose compare-and-swap of EVENT_LOOP_STARTED from false
\* to true succeeds spawns the N - 1 workers: when it returns, the flag is
\* set and every worker thread exists.
C11_FirstStartSpawns ==
    [][\A t \in Threads :
         pc[t] = "start" /\ ~EVENT_LOOP_STARTED /\ pc'[t] # "start" =>
            /\ EVENT_LOOP_STARTED'
            /\ \A w \in Workers : pc'[w] # "unspawned"]_vars

\* A worker that is past its call of next() and so bound to a loop.
Bound(w) == op[w].kind = "worker" /\ pc[w] \notin {"next", "next_index"}

\* C12: a worker that finds EVENT_LOOP_STARTED cleared begins no further
\* wait_event and ends; an ended worker stays ended; and if from some point
\* on the flag stays cleared (stop() and no later start()), then from some
\* point on every spawned worker has ended.
C12_WorkersExit ==
    /\ [][\A w \in Workers :
            pc[w] = "worker_load" /\ ~EVENT_LOOP_STARTED /\ pc'[w] # pc[w] =>
               pc'[w] = "exited"]_vars
    /\ [][\A w \in Workers : pc[w] = "exited" => pc'[w] = "exited"]_vars
    /\ (<>[](~EVENT_LOOP_STARTED)) =>
          <>[](\A w \in Workers : pc[w] \in {"unspawned", "exited"})

\* C12 witness: the workers were spawned, a stop() has returned and cleared
\* the flag, and a worker that had been bound to a loop has ended.
C12_Witness ==
    /\ EVENT_LOOP_WORKERS /\ ~EVENT_LOOP_STARTED
    /\ \E t \in Threads : pc[t] = "idle" /\ ret[t] = Ok(NoResult)
    /\ \E w \in Workers : pc[w] = "exited" /\ Bound(w)

\* C13: no worker is bound to loops[0], and the workers are bound to
\* distinct loops.
C13_LoopZeroReserved ==
    /\ \A w \in Workers : Bound(w) => op[w].loop # 0
    /\ \A w1, w2 \in Workers :
          w1 # w2 /\ Bound(w1) /\ Bound(w2) => op[w1].loop # op[w2].loop

\* C14: every event wait is about to process finds its entry in the token
\* map of its interest, so the removal assertions of wait hold.
C14_NoSpuriousEvent ==
    \A t \in Threads :
        pc[t] = "events" =>
            \A e \in events[t] :
                /\ e.readable => READABLE_TOKEN_RECORDS[e.fd] # NoToken
                /\ e.writable => WRITABLE_TOKEN_RECORDS[e.fd] # NoToken

\* C15: an add_read_event(fd) made after wait consumed a readable event for
\* fd (fd recorded, its token entry removed) returns Ok, with fd registered
\* for reads with the selector and present in both readable registries.
\* Likewise for add_write_event.
C15_FdCycle ==
    [][\A t \in Threads :
         LET l == op[t].loop
             fd == op[t].fd
         IN  /\ Performs(t, "add_read_event") /\ fd \in READABLE_RECORDS
                   /\ READABLE_TOKEN_RECORDS[fd] = NoToken =>
                  /\ ret'[t] = Ok(NoResult)
                  /\ selector'[l][fd].r # NoToken
                  /\ fd \in READABLE_RECORDS'
                  /\ READABLE_TOKEN_RECORDS'[fd] # NoToken
             /\ Performs(t, "add_write_event") /\ fd \in WRITABLE_RECORDS
                   /\ WRITABLE_TOKEN_RECORDS[fd] = NoToken =>
                  /\ ret'[t] = Ok(NoResult)
                  /\ selector'[l][fd].w # NoToken
                  /\ fd \in WRITABLE_RECORDS'
                  /\ WRITABLE_TOKEN_RECORDS'[fd] # NoToken]_vars

GatePcs == {"try_timed_schedule", "select", "waiting_store"}

\* C16: the step by which a thread leaves the gate of its loop, after a
\* select that succeeded or failed, leaves `waiting` false, and it does so
\* before any event is processed; a failed select ends the call with Err; and
\* `waiting` is never left set with no thread inside the gate.
C16_GateReleased ==
    /\ [][\A t \in Threads :
            /\ pc[t] \in GatePcs /\ pc'[t] \notin GatePcs =>
                  waiting'[op[t].loop] = FALSE
            /\ pc[t] = "select" /\ pc'[t] \notin {"select", "waiting_store"} =>
                  pc'[t] = "idle" /\ ret'[t] = Err
            /\ pc[t] # "events" /\ pc'[t] = "events" =>
                  pc[t] = "waiting_store" /\ waiting'[op[t].loop] = FALSE]_vars
    /\ [](\A l \in Loops : waiting[l] => \E t \in Threads : InGate(t, l))

\* C16 witness: no fd is registered anywhere, a wait has returned the error
\* of a failed select, no gate is held by it, and another thread is inside
\* select.
C16_Witness ==
    \E t1, t2 \in Threads, l \in Loops :
        /\ \A k \in Loops, fd \in FDs : ~Registered(k, fd)
        /\ pc[t1] = "idle" /\ ret[t1] = Err
        /\ InSelect(t2, l)
        /\ \A k \in Loops : k # l => ~waiting[k]

\* C17: the N turns of a pool-level del_* reach N different loops: at its
\* last turn the call has visited every loop of the pool.
C17_PoolDelReachesAll ==
    \A t \in Threads :
        /\ op[t].kind \in PoolDelKinds /\ op[t].left = 1
        /\ pc[t] \in {"del_event", "del_read_event", "del_write_event"}
        => op[t].visited = Loops

InScheduler(t, l) ==
    /\ op[t].loop = l
    /\ pc[t] \in {"try_timed_schedule", "try_timeout_schedule"}

\* C18: on every loop at most one thread at a time is inside the scheduler.
C18_SchedulerMutex ==
    \A l \in Loops : Cardinality({t \in Threads : InScheduler(t, l)}) <= 1

DelKinds == {"del_event", "del_read_event", "del_write_event"}

\* C19: a loop-level del_event, del_read_event or del_write_event that
\* returns Err leaves the four registries as they were.
C19_FailedDelFrame ==
    [][\A t \in Threads :
         pc[t] \in DelKinds /\ pc'[t] = "idle" /\ ret'[t] = Err =>
            UNCHANGED regVars]_vars

\* C20: when add_read_event(fd) returns Ok on loop l, the selector of l holds
\* a read registration for fd; likewise add_write_event and a write
\* registration.
C20_RegistrationOnLoop ==
    [][\A t \in Threads :
         LET l == op[t].loop
             fd == op[t].fd
         IN  /\ Performs(t, "add_read_event") /\ ret'[t] = Ok(NoResult) =>
                  selector'[l][fd].r # NoToken
             /\ Performs(t, "add_write_event") /\ ret'[t] = Ok(NoResult) =>
                  selector'[l][fd].w # NoToken]_vars

====
